---- MODULE Spec2Model ----
(***************************************************************************)
(* The plugin manager of python-wechaty (src/src/wechaty/plugin.py):      *)
(* WechatyPluginManager's registry (_plugins, _plugin_status) and its     *)
(* event fan-out emit_events, as a state machine.                         *)
(*                                                                         *)
(* Scheduling.  emit_events is a coroutine on the asyncio event loop.  It *)
(* runs without interruption up to an `await plugin.on_xxx(...)`; only    *)
(* while it is suspended inside a handler can other code (add_plugin,     *)
(* remove_plugin, start_plugin, stop_plugin, plugin_status) run.  A       *)
(* handler's completion and the continuation of the for-loop up to the    *)
(* next await are one step.  Nothing keeps a second emit_events from being *)
(* called while one is suspended: each call has its own iterator over     *)
(* _plugins.  The variables emit_pc .. di_stale describe the call that    *)
(* took the latest step; `suspended` holds the other calls in flight.     *)
(* The manager's start() is a coroutine of the same kind: it may be       *)
(* suspended in a plugin's init_plugin or blueprint.                      *)
(*                                                                         *)
(* A method is an action over the program's variables with one more       *)
(* parameter, out: how the call ends (the exception raised, the value     *)
(* returned, whether log.warning was written).  The next-state relations  *)
(* either record out in ret or leave it unobserved.                       *)
(***************************************************************************)
EXTENDS Integers, Sequences, FiniteSets, Bags, TLC

\* ------------------------------------------------------------------ bounds

\* number of plugin instances the application creates
NumPlugins == 3
\* how many positional arguments beyond a kind's arity an emit is tried with
MaxExtraArgs == 1
\* how many times the manager's start() is called
MaxStarts == 2
\* how many calls of emit_events are in flight at a time
MaxEmits == 2
\* the longest message text, in words, blanks and mention tokens
MaxPieces == 5

\* --------------------------------------------------------------- constants

None == "None"

\* class PluginStatus(Enum)
Running == "Running"
Stopped == "Stopped"

\* exception classes
WechatyPluginError == "WechatyPluginError"
AssertionError == "AssertionError"
IndexError == "IndexError"
KeyError == "KeyError"
RuntimeError == "RuntimeError"
\* whatever a plugin's own handler raises
HandlerError == "HandlerError"

\* ------------------------------------------------------------ the plugins

\* The plugin objects of the application: the class of each and the
\* options.name it was constructed with.  The first has no name of its own,
\* the third is given the name the first one defaults to.
PluginIds == <<"plugin1", "plugin2", "plugin3", "plugin4", "plugin5", "plugin6">>
PluginClass == <<"DingDong", "Echo", "Relay", "Greeter", "Counter", "Logger">>
PluginOptionsName == <<None, "Echo", "DingDong", "Greeter", "Counter", "Logger">>

Plugins == {PluginIds[i] : i \in 1..NumPlugins}

PluginIndex(plugin) == CHOOSE i \in DOMAIN PluginIds : PluginIds[i] = plugin

\* every name a plugin may have, and one that no plugin has
PluginNames == {PluginClass[i] : i \in 1..NumPlugins}
                 \cup ({PluginOptionsName[i] : i \in 1..NumPlugins} \ {None})
Names == PluginNames \cup {"Ghost"}

\* one more plugin object, and its name, for the calls of the registry alone
MorePlugins == {PluginIds[i] : i \in 1..(NumPlugins + 1)}
MoreNames == Names \cup {PluginClass[NumPlugins + 1], PluginOptionsName[NumPlugins + 1]}

\* strings given to add_plugin in place of a plugin object
UrlLocators == {"https://github.com/wechaty/plugin"}
Locators == UrlLocators \cup {"plugins/ding_dong.py", "DingDong"}

VARIABLES
    options_name,    \* plugin -> its options.name (None until set)
    _plugins,        \* the OrderedDict name -> plugin: a sequence of [name, plugin]
    _plugin_status,  \* the dict name -> PluginStatus
    emit_pc,         \* "idle" | "handler" (suspended in an await) | "done"
    emit_event,      \* the arguments of the emit_events call that moved last
    emit_exc,        \* the exception that call ended with
    emit_calls,      \* the handler invocations of that call
    in_progress,     \* the bag of plugins whose handler has started and not completed
    di_current,      \* the items() iterator: the key it yields next, or None
    di_stale,        \* the items() iterator: the dict was mutated since its creation
    suspended,       \* the other emit_events calls suspended in a handler
    set_bot_calls,   \* plugin -> how many times set_bot was called on it (0: bot is None)
    web_tasks,       \* how many web service tasks start() has created
    start_pc,        \* start(): "idle" | "init_plugin" | "blueprint" (suspended) | "done"
    start_exc,       \* the exception the start() call that moved last ended with
    st_plugin,       \* the plugin whose init_plugin or blueprint that call awaits
    st_current,      \* its items() iterator: the key it yields next, or None
    st_stale,        \* its items() iterator: the dict was mutated since its creation
    suspended_starts,\* the other start() calls suspended in a plugin's hook
    start_calls,     \* how many times start() was called
    output,          \* plugin -> its output dict
    msg,             \* the message whose mention text is asked for
    mention_result,  \* what mention_text returned for it, once it has
    status_at_emit,  \* observation: _plugin_status when the latest emit_events began
    ret,             \* observation: the latest registry call and how it ended
    first_added      \* observation: the names in the order of their first registration

registry == <<_plugins, _plugin_status>>
\* what neither the registry's methods nor emit_events write
mentionVars == <<msg, mention_result>>
startVars == <<start_pc, start_exc, st_plugin, st_current, start_calls>>
restVars == <<set_bot_calls, web_tasks, output, mentionVars, startVars>>
emitVars == <<emit_pc, emit_event, emit_exc, emit_calls, in_progress, di_current>>
\* the live iterators over _plugins, each of them stale or not
startIterators == <<st_stale, suspended_starts>>
iterators == <<di_stale, suspended, startIterators>>
progVars == <<options_name, _plugins, _plugin_status, emit_pc, emit_event, emit_exc,
              emit_calls, in_progress, di_current, di_stale, suspended, set_bot_calls,
              web_tasks, start_pc, start_exc, st_plugin, st_current, st_stale,
              suspended_starts, start_calls, output, msg, mention_result>>
vars == <<options_name, _plugins, _plugin_status, emit_pc, emit_event, emit_exc,
          emit_calls, in_progress, di_current, di_stale, suspended, set_bot_calls,
          web_tasks, start_pc, start_exc, st_plugin, st_current, st_stale,
          suspended_starts, start_calls, output, msg, mention_result, status_at_emit,
          ret, first_added>>

\* ---------------------------------------------------------------- helpers

Keys(od) == [i \in 1..Len(od) |-> od[i].name]
KeySet(od) == {od[i].name : i \in 1..Len(od)}
IndexOf(od, key) == CHOOSE i \in 1..Len(od) : od[i].name = key
\* OrderedDict.pop(key)
Pop(od, key) ==
    LET i == IndexOf(od, key)
    IN  SubSeq(od, 1, i - 1) \o SubSeq(od, i + 1, Len(od))
\* od[key] = value: a new key goes last, a key already there keeps its place
Put(od, key, value) ==
    IF key \in KeySet(od)
    THEN [od EXCEPT ![IndexOf(od, key)].plugin = value]
    ELSE Append(od, [name |-> key, plugin |-> value])
\* dict.pop(key)
DictPop(d, key) == [k \in (DOMAIN d) \ {key} |-> d[k]]
\* d[key] = value
DictSet(d, key, value) ==
    [k \in (DOMAIN d) \cup {key} |-> IF k = key THEN value ELSE d[k]]

\* WechatyPlugin.name: options.name, or the class name when that is unset
name(plugin) ==
    IF options_name[plugin] = None
    THEN PluginClass[PluginIndex(plugin)]
    ELSE options_name[plugin]

\* the side effect of reading WechatyPlugin.name: the name is stored in options
name_stored(plugin) == [options_name EXCEPT ![plugin] = name(plugin)]

\* the url pattern of add_plugin, on the strings tried here
regex_match(plugin) == plugin \in UrlLocators

\* mutant: the loader finds a plugin
_load_plugin_from_local_file_found(plugin_path) == PluginIds[1]

_load_plugin_from_local_file(plugin_path) == None

_load_plugin_from_github_url(github_url) == None

\* {}
EmptyDict == <<>>

\* how a call ends
Raise(exc) == [exc |-> exc, value |-> None, warning |-> FALSE]
Return(value, warning) == [exc |-> None, value |-> value, warning |-> warning]
Outcomes ==
    {Raise(e) : e \in {WechatyPluginError, KeyError}}
      \cup {Return(v, w) : v \in {None, Running, Stopped}, w \in BOOLEAN}

\* the hooks of a plugin that start() awaits
Hooks == {"init_plugin", "blueprint"}

\* od_state of the OrderedDict moves on when a key is added or removed: a live
\* items() iterator (one exists for each emit_events and each start()
\* suspended in its loop) is then stale
Stale(frames) == [i \in DOMAIN frames |-> [frames[i] EXCEPT !.stale = TRUE]]

Mutated ==
    /\ di_stale' = IF emit_pc = "handler" THEN TRUE ELSE di_stale
    /\ suspended' = Stale(suspended)
    /\ st_stale' = IF start_pc \in Hooks THEN TRUE ELSE st_stale
    /\ suspended_starts' = Stale(suspended_starts)

\* --------------------------------------------------------------- registry

\* lines 334-336
Install(plugin_instance) ==
    /\ _plugins' = Put(_plugins, name(plugin_instance), plugin_instance)
    /\ _plugin_status' = DictSet(_plugin_status, name(plugin_instance), Running)
    /\ IF name(plugin_instance) \in KeySet(_plugins) THEN UNCHANGED iterators ELSE Mutated

\* mutant: a plugin object replaces the one registered under its name
add_plugin_overwrite(plugin, out) ==
    /\ out = Return(None, FALSE)
    /\ plugin \in Plugins
    /\ options_name' = name_stored(plugin)
    /\ Install(plugin)
    /\ UNCHANGED <<emitVars, restVars>>

\* mutant: a new plugin is put first in the order
add_plugin_first(plugin, out) ==
    /\ IF plugin \in Locators
       THEN /\ out = Raise(WechatyPluginError)
            /\ UNCHANGED <<options_name, _plugins, _plugin_status, iterators>>
       ELSE IF name(plugin) \in KeySet(_plugins)
       THEN /\ out = Return(None, TRUE)
            /\ options_name' = name_stored(plugin)
            /\ UNCHANGED <<_plugins, _plugin_status, iterators>>
       ELSE /\ out = Return(None, FALSE)
            /\ options_name' = name_stored(plugin)
            /\ _plugins' = <<[name |-> name(plugin), plugin |-> plugin]>> \o _plugins
            /\ _plugin_status' = DictSet(_plugin_status, name(plugin), Running)
            /\ Mutated
    /\ UNCHANGED <<emitVars, restVars>>

add_plugin(plugin, out) ==
    /\ IF plugin \in Locators
       THEN LET plugin_instance ==
                    IF ~regex_match(plugin)
                    THEN _load_plugin_from_local_file(plugin)
                    ELSE _load_plugin_from_github_url(plugin)
            IN  IF plugin_instance = None
                THEN /\ out = Raise(WechatyPluginError)
                     /\ UNCHANGED <<options_name, _plugins, _plugin_status, iterators>>
                ELSE /\ out = Return(None, FALSE)
                     /\ options_name' = name_stored(plugin_instance)
                     /\ Install(plugin_instance)
       ELSE IF name(plugin) \in KeySet(_plugins)
       THEN /\ out = Return(None, TRUE)
            /\ options_name' = name_stored(plugin)
            /\ UNCHANGED <<_plugins, _plugin_status, iterators>>
       ELSE /\ out = Return(None, FALSE)
            /\ options_name' = name_stored(plugin)
            /\ Install(plugin)
    /\ UNCHANGED <<emitVars, restVars>>

\* mutant: the status entry is left behind
remove_plugin_keeps_status(n, out) ==
    /\ IF n \notin KeySet(_plugins)
       THEN /\ out = Raise(WechatyPluginError)
            /\ UNCHANGED <<_plugins, _plugin_status, iterators>>
       ELSE /\ out = Return(None, FALSE)
            /\ _plugins' = Pop(_plugins, n)
            /\ Mutated
            /\ UNCHANGED _plugin_status
    /\ UNCHANGED options_name
    /\ UNCHANGED <<emitVars, restVars>>

\* mutant: the plugin registered last is removed, whatever the name
remove_plugin_last(n, out) ==
    /\ IF n \notin KeySet(_plugins)
       THEN /\ out = Raise(WechatyPluginError)
            /\ UNCHANGED <<_plugins, _plugin_status, iterators>>
       ELSE /\ out = Return(None, FALSE)
            /\ _plugins' = SubSeq(_plugins, 1, Len(_plugins) - 1)
            /\ _plugin_status' = DictPop(_plugin_status, _plugins[Len(_plugins)].name)
            /\ Mutated
    /\ UNCHANGED options_name
    /\ UNCHANGED <<emitVars, restVars>>

remove_plugin(n, out) ==
    /\ IF n \notin KeySet(_plugins)
       THEN /\ out = Raise(WechatyPluginError)
            /\ UNCHANGED <<_plugins, _plugin_status, iterators>>
       ELSE IF n \in DOMAIN _plugin_status
       THEN /\ out = Return(None, FALSE)
            /\ _plugins' = Pop(_plugins, n)
            /\ _plugin_status' = DictPop(_plugin_status, n)
            /\ Mutated
       ELSE /\ out = Raise(KeyError)
            /\ _plugins' = Pop(_plugins, n)
            /\ Mutated
            /\ UNCHANGED _plugin_status
    /\ UNCHANGED options_name
    /\ UNCHANGED <<emitVars, restVars>>

\* mutant: an unknown name passes the check
_check_plugins_lax(n) == None

\* the exception _check_plugins raises, or None
_check_plugins(n) ==
    IF n \notin KeySet(_plugins) /\ n \notin DOMAIN _plugin_status
    THEN WechatyPluginError
    ELSE None

\* mutant: stopping a plugin that is Stopped is an error
stop_plugin_strict(n, out) ==
    /\ IF _check_plugins(n) # None
       THEN /\ out = Raise(_check_plugins(n))
            /\ UNCHANGED _plugin_status
       ELSE IF _plugin_status[n] = Stopped
       THEN /\ out = Raise(WechatyPluginError)
            /\ UNCHANGED _plugin_status
       ELSE /\ out = Return(None, FALSE)
            /\ _plugin_status' = DictSet(_plugin_status, n, Stopped)
    /\ UNCHANGED <<options_name, _plugins, iterators>>
    /\ UNCHANGED <<emitVars, restVars>>

stop_plugin(n, out) ==
    /\ IF _check_plugins(n) # None
       THEN /\ out = Raise(_check_plugins(n))
            /\ UNCHANGED _plugin_status
       ELSE IF n \notin DOMAIN _plugin_status
       THEN /\ out = Raise(KeyError)
            /\ UNCHANGED _plugin_status
       ELSE /\ out = Return(None, _plugin_status[n] = Stopped)
            /\ _plugin_status' = DictSet(_plugin_status, n, Stopped)
    /\ UNCHANGED <<options_name, _plugins, iterators>>
    /\ UNCHANGED <<emitVars, restVars>>

\* mutant: a started plugin is registered anew, behind the others
start_plugin_moving(n, out) ==
    /\ IF _check_plugins(n) # None
       THEN /\ out = Raise(_check_plugins(n))
            /\ UNCHANGED <<_plugins, _plugin_status>>
       ELSE /\ out = Return(None, FALSE)
            /\ _plugins' = Append(Pop(_plugins, n), _plugins[IndexOf(_plugins, n)])
            /\ _plugin_status' = DictSet(_plugin_status, n, Running)
    /\ UNCHANGED <<options_name, iterators>>
    /\ UNCHANGED <<emitVars, restVars>>

start_plugin(n, out) ==
    /\ IF _check_plugins(n) # None
       THEN /\ out = Raise(_check_plugins(n))
            /\ UNCHANGED _plugin_status
       ELSE /\ out = Return(None, FALSE)
            /\ _plugin_status' = DictSet(_plugin_status, n, Running)
    /\ UNCHANGED <<options_name, _plugins, iterators>>
    /\ UNCHANGED <<emitVars, restVars>>

\* how plugin_status(name) ends
plugin_status_result(n) ==
    IF _check_plugins(n) # None
    THEN Raise(_check_plugins(n))
    ELSE IF n \notin DOMAIN _plugin_status
    THEN Raise(KeyError)
    ELSE Return(_plugin_status[n], FALSE)

plugin_status(n, out) ==
    /\ out = plugin_status_result(n)
    /\ UNCHANGED <<options_name, _plugins, _plugin_status, iterators>>
    /\ UNCHANGED <<emitVars, restVars>>

\* WechatyPlugin.set_bot, called by the application (the counter is capped)
set_bot(plugin) ==
    /\ set_bot_calls[plugin] < MaxStarts
    /\ set_bot_calls' = [set_bot_calls EXCEPT ![plugin] = @ + 1]
    /\ UNCHANGED <<options_name, _plugins, _plugin_status, iterators, emitVars, web_tasks,
                   output, mentionVars, startVars>>

\* where a start() stops next: in a hook of the plugin of a name, which
\* suspends it or raises at once, or nowhere (every hook it awaits returns at
\* once, as those of the base class do)
NoStop == [name |-> None, hook |-> None, raises |-> FALSE]
StopPoints ==
    {[name |-> n, hook |-> h, raises |-> r] : n \in Names, h \in Hooks, r \in BOOLEAN}
      \cup {NoStop}

\* the call of start() that moved last, suspended in a hook
StartFrame ==
    [pc |-> start_pc, plugin |-> st_plugin, next |-> st_current, stale |-> st_stale]

\* the start() calls in flight
StartParked ==
    IF start_pc \in Hooks THEN Append(suspended_starts, StartFrame) ELSE suspended_starts

\* the end of start(): the web service task is created
StartEnd(bound) ==
    [pc |-> "done", exc |-> None, plugin |-> None, next |-> None, bound |-> bound, web |-> 1]

\* a hook raises: the await stands in no try, the exception leaves start()
\* before the web service task is created
StartRaised(bound) ==
    [pc |-> "done", exc |-> HandlerError, plugin |-> None, next |-> None, bound |-> bound,
     web |-> 0]

\* the hook of a plugin at which start() stops: it suspends start() or raises
StartStop(stop, plugin, nxt, bound) ==
    IF stop.raises
    THEN StartRaised(bound)
    ELSE [pc |-> stop.hook, exc |-> None, plugin |-> plugin, next |-> nxt, bound |-> bound,
          web |-> 0]

\* The for-loop of start() from the key the iterator yields next, up to the
\* hook it is suspended in, to the hook that raises or to its end.  bound: the plugins set_bot was
\* called on.
RECURSIVE StartLoop(_, _, _)
StartLoop(key, stop, bound) ==
    IF key = None
    THEN StartEnd(bound)
    ELSE LET i == IndexOf(_plugins, key)
             nxt == IF i < Len(_plugins) THEN _plugins[i + 1].name ELSE None
             plugin == _plugins[i].plugin
         IN  IF stop.name = key /\ stop.hook \in Hooks
             THEN StartStop(stop, plugin, nxt, bound \cup {plugin})
             ELSE StartLoop(nxt, stop, bound \cup {plugin})

\* next() of the iterator of start(), then the loop
StartResume(key, stale, stop) ==
    IF key = None
    THEN StartEnd({})
    ELSE IF stale
    THEN [pc |-> "done", exc |-> RuntimeError, plugin |-> None, next |-> None,
          bound |-> {}, web |-> 0]
    ELSE StartLoop(key, stop, {})

\* the state of start() after a step r of its loop
StartProceed(r, stale) ==
    /\ start_pc' = r.pc
    /\ start_exc' = r.exc
    /\ st_plugin' = r.plugin
    /\ st_current' = r.next
    /\ st_stale' = IF r.pc = "done" THEN FALSE ELSE stale
    /\ set_bot_calls' =
          [p \in DOMAIN set_bot_calls |->
              IF p \in r.bound THEN set_bot_calls[p] + 1 ELSE set_bot_calls[p]]
    /\ web_tasks' = web_tasks + r.web

\* the call of WechatyPluginManager.start, up to the first hook that suspends
\* it, to a hook's exception or to its end: set_bot on each plugin the loop comes to, then the web
\* service task.  The code has no guard: the number of calls is capped here.
start(stop) ==
    /\ start_calls < MaxStarts
    /\ start_calls' = start_calls + 1
    /\ suspended_starts' = StartParked
    /\ StartProceed(StartResume(IF _plugins = <<>> THEN None ELSE _plugins[1].name,
                                FALSE, stop),
                    FALSE)
    /\ UNCHANGED <<options_name, _plugins, _plugin_status, di_stale, suspended, emitVars,
                   output, mentionVars>>

\* the start() calls in flight but the i-th
StartOthers(i) ==
    [j \in 1..(Len(StartParked) - 1) |->
        IF j < i THEN StartParked[j] ELSE StartParked[j + 1]]

\* the hook that the i-th start() in flight awaits returns and its loop goes
\* on: after init_plugin comes blueprint of the same plugin
hook_returns(i, stop) ==
    /\ i \in DOMAIN StartParked
    /\ suspended_starts' = StartOthers(i)
    /\ LET f == StartParked[i]
       IN  IF f.pc = "init_plugin" /\ stop.hook = "blueprint"
                  /\ stop.name = name(f.plugin)
           THEN StartProceed(StartStop(stop, f.plugin, f.next, {}), f.stale)
           ELSE StartProceed(StartResume(f.next, f.stale, stop), f.stale)
    /\ UNCHANGED <<options_name, _plugins, _plugin_status, di_stale, suspended, emitVars,
                   output, mentionVars, start_calls>>

\* the hook that the i-th start() in flight awaits raises: start() ends with
\* the hook's exception, the later plugins are not bound and no web service
\* task is created
hook_raises(i) ==
    /\ i \in DOMAIN StartParked
    /\ suspended_starts' = StartOthers(i)
    /\ StartProceed(StartRaised({}), FALSE)
    /\ UNCHANGED <<options_name, _plugins, _plugin_status, di_stale, suspended, emitVars,
                   output, mentionVars, start_calls>>

\* ------------------------------------------------------------ plugin output

\* the keys and values a plugin writes to its output
OutputKeys == {"k1", "k2"}
OutputValues == {"v1", "v2"}
\* every dict over them
OutputDicts == UNION {[D -> OutputValues] : D \in SUBSET OutputKeys}
OutputOutcomes == {Return(d, FALSE) : d \in OutputDicts}

\* a plugin's own code: self.output[key] = value
write_output(plugin, key, value) ==
    /\ output' = [output EXCEPT ![plugin] = DictSet(output[plugin], key, value)]
    /\ UNCHANGED <<options_name, _plugins, _plugin_status, iterators, emitVars,
                   set_bot_calls, web_tasks, mentionVars, startVars>>

\* mutant: the buffer is returned and kept
get_output_kept(plugin, out) ==
    /\ out = Return(output[plugin], FALSE)
    /\ UNCHANGED output
    /\ UNCHANGED <<options_name, _plugins, _plugin_status, iterators, emitVars,
                   set_bot_calls, web_tasks, mentionVars, startVars>>

\* WechatyPlugin.get_output: a deep copy of output is returned, output is reset
get_output(plugin, out) ==
    /\ out = Return(output[plugin], FALSE)
    /\ output' = [output EXCEPT ![plugin] = EmptyDict]
    /\ UNCHANGED <<options_name, _plugins, _plugin_status, iterators, emitVars,
                   set_bot_calls, web_tasks, mentionVars, startVars>>

\* ------------------------------------------------------------------ events

\* the branches of emit_events
DispatchedKinds == {"message", "friendship", "login", "room-invite",
                    "room-join", "room-leave", "room-topic", "scan"}
\* event names that emit_events has no branch for
OtherKinds == {"error", "heartbeat", "ready", "logout", "dong"}

\* the handler a branch awaits
Handler(event_name) ==
    CASE event_name = "message" -> "on_message"
      [] event_name = "friendship" -> "on_friendship"
      [] event_name = "login" -> "on_login"
      [] event_name = "room-invite" -> "on_room_invite"
      [] event_name = "room-join" -> "on_room_join"
      [] event_name = "room-leave" -> "on_room_leave"
      [] event_name = "room-topic" -> "on_room_topic"
      [] event_name = "scan" -> "on_scan"

\* the arguments a branch reads, in the order it reads them, each with the
\* class its assert asks for (None: no assert)
ArgTypes(event_name) ==
    CASE event_name = "message" -> <<"Message">>
      [] event_name = "friendship" -> <<"Friendship">>
      [] event_name = "login" -> <<"Contact">>
      [] event_name = "room-invite" -> <<"RoomInvitation">>
      [] event_name = "room-join" -> <<"Room", "list", "Contact", "datetime">>
      [] event_name = "room-leave" -> <<"Room", "list", "Contact", "datetime">>
      [] event_name = "room-topic" -> <<"Room", "str", "str", "Contact", "datetime">>
      [] event_name = "scan" -> <<"str", "str", None>>

\* mutant: only a call with no argument is refused
ArgsRejected_empty(event_name, args, kwargs) ==
    IF event_name = "message" THEN Len(args) = 0 /\ "msg" \notin kwargs ELSE Len(args) = 0

\* the first test of a branch: TRUE when it raises WechatyPluginError
ArgsRejected(event_name, args, kwargs) ==
    CASE event_name = "message" -> Len(args) = 0 /\ "msg" \notin kwargs
      [] event_name \in {"friendship", "login", "room-invite"} ->
            Len(args) = 0 \/ Len(args) # 1
      [] event_name \in {"room-join", "room-leave"} ->
            Len(args) = 0 \/ Len(args) # 4
      [] event_name = "room-topic" -> Len(args) = 0 \/ Len(args) # 5
      [] event_name = "scan" -> Len(args) = 0 \/ Len(args) < 0 \/ Len(args) > 3

\* x = args[i]; assert isinstance(x, types[i]) for i, i+1, ...: the first
\* exception raised, or None.  Assertions are enabled (python without -O).
RECURSIVE ReadArgs(_, _, _)
ReadArgs(args, types, i) ==
    IF i > Len(types) THEN None
    ELSE IF i > Len(args) THEN IndexError
    ELSE IF types[i] # None /\ args[i] # types[i] THEN AssertionError
    ELSE ReadArgs(args, types, i + 1)

\* what a branch raises before its for-loop, or None
Validate(event_name, args, kwargs) ==
    IF ArgsRejected(event_name, args, kwargs) THEN WechatyPluginError
    ELSE ReadArgs(args, ArgTypes(event_name), 1)

\* the arguments a branch passes to the handler
HandlerArgs(event_name, args) == SubSeq(args, 1, Len(ArgTypes(event_name)))

\* mutant: the status test of the loop left out
is_running_unchecked(n) == TRUE

\* mutant: the statuses are those of the moment emit_events was called
is_running_at_emit(n) == n \in DOMAIN status_at_emit /\ status_at_emit[n] = Running

\* line 455: if self.plugin_status(name) == PluginStatus.Running
is_running(n) == plugin_status_result(n).value = Running

\* mutant: the handlers are started together, none is awaited before the next
RECURSIVE FanoutGather(_, _, _, _)
FanoutGather(ev, key, calls, running) ==
    IF key = None
    THEN [pc |-> IF calls = <<>> THEN "done" ELSE "handler", exc |-> None, next |-> None,
          calls |-> calls, running |-> running]
    ELSE LET i == IndexOf(_plugins, key)
             nxt == IF i < Len(_plugins) THEN _plugins[i + 1].name ELSE None
             call == [name |-> key, plugin |-> _plugins[i].plugin,
                      handler |-> Handler(ev.event_name),
                      args |-> HandlerArgs(ev.event_name, ev.args)]
         IN  IF is_running(key)
             THEN FanoutGather(ev, nxt, Append(calls, call),
                               running (+) SetToBag({_plugins[i].plugin}))
             ELSE FanoutGather(ev, nxt, calls, running)

\* The for-loop `for name, plugin in self._plugins.items()` from the key the
\* iterator yields next, up to the first await or the end of the loop.
\* calls: the handler invocations of this call so far; running: the bag of
\* handlers in progress.
RECURSIVE Fanout(_, _, _, _)
Fanout(ev, key, calls, running) ==
    IF key = None
    THEN [pc |-> "done", exc |-> None, next |-> None, calls |-> calls, running |-> running]
    ELSE LET i == IndexOf(_plugins, key)
             nxt == IF i < Len(_plugins) THEN _plugins[i + 1].name ELSE None
             call == [name |-> key, plugin |-> _plugins[i].plugin,
                      handler |-> Handler(ev.event_name),
                      args |-> HandlerArgs(ev.event_name, ev.args)]
         IN  IF plugin_status_result(key).exc # None
             THEN [pc |-> "done", exc |-> plugin_status_result(key).exc, next |-> None,
                   calls |-> calls, running |-> running]
             ELSE IF is_running(key)
             THEN [pc |-> "handler", exc |-> None, next |-> nxt,
                   calls |-> Append(calls, call),
                   running |-> running (+) SetToBag({_plugins[i].plugin})]
             ELSE Fanout(ev, nxt, calls, running)

\* next() of the items() iterator, then the loop: an exhausted iterator stops,
\* a live one over a dict mutated since its creation raises RuntimeError
Resume(ev, key, stale, calls, running) ==
    IF key = None
    THEN [pc |-> "done", exc |-> None, next |-> None, calls |-> calls, running |-> running]
    ELSE IF stale
    THEN [pc |-> "done", exc |-> RuntimeError, next |-> None, calls |-> calls,
          running |-> running]
    ELSE Fanout(ev, key, calls, running)

\* the coroutine's state after a step r of the loop; the iterator goes with the loop
Proceed(r, stale) ==
    /\ emit_pc' = r.pc
    /\ emit_exc' = r.exc
    /\ emit_calls' = r.calls
    /\ in_progress' = r.running
    /\ di_current' = r.next
    /\ di_stale' = IF r.pc = "done" THEN FALSE ELSE stale

\* emit_events ends before its loop, raising exc or returning
Finish(exc) ==
    Proceed([pc |-> "done", exc |-> exc, next |-> None, calls |-> <<>>,
             running |-> in_progress],
            FALSE)

\* the emit_events call that moved last, suspended in a handler
Frame ==
    [event |-> emit_event, calls |-> emit_calls, next |-> di_current, stale |-> di_stale]

\* the emit_events calls in flight: each is suspended in a handler
Parked == IF emit_pc = "handler" THEN Append(suspended, Frame) ELSE suspended

\* mutant: an event name without a branch is refused
emit_events_strict(event_name, args, kwargs) ==
    /\ Len(Parked) < MaxEmits
    /\ suspended' = Parked
    /\ UNCHANGED <<options_name, _plugins, _plugin_status, restVars, startIterators>>
    /\ emit_event' = [event_name |-> event_name, args |-> args, kwargs |-> kwargs]
    /\ IF event_name \notin DispatchedKinds
       THEN Finish(WechatyPluginError)
       ELSE IF Validate(event_name, args, kwargs) # None
       THEN Finish(Validate(event_name, args, kwargs))
       ELSE Proceed(Resume([event_name |-> event_name, args |-> args, kwargs |-> kwargs],
                           IF _plugins = <<>> THEN None ELSE _plugins[1].name,
                           FALSE, <<>>, in_progress),
                    FALSE)

\* the call of emit_events, up to its first await or its end; a call suspended
\* in a handler stays as it is.  The code has no guard: the number of calls
\* in flight is capped here.
emit_events(event_name, args, kwargs) ==
    /\ Len(Parked) < MaxEmits
    /\ suspended' = Parked
    /\ UNCHANGED <<options_name, _plugins, _plugin_status, restVars, startIterators>>
    /\ emit_event' = [event_name |-> event_name, args |-> args, kwargs |-> kwargs]
    /\ IF event_name \notin DispatchedKinds
       THEN Finish(None)
       ELSE IF Validate(event_name, args, kwargs) # None
       THEN Finish(Validate(event_name, args, kwargs))
       ELSE Proceed(Resume([event_name |-> event_name, args |-> args, kwargs |-> kwargs],
                           IF _plugins = <<>> THEN None ELSE _plugins[1].name,
                           FALSE, <<>>, in_progress),
                    FALSE)

\* the plugin whose handler a call in flight awaits
Awaited(f) == f.calls[Len(f.calls)].plugin

\* the calls in flight but the i-th
Others(i) ==
    [j \in 1..(Len(Parked) - 1) |-> IF j < i THEN Parked[j] ELSE Parked[j + 1]]

\* the handler that the i-th call in flight awaits returns and its loop goes on
handler_returns(i) ==
    /\ i \in DOMAIN Parked
    /\ suspended' = Others(i)
    /\ emit_event' = Parked[i].event
    /\ UNCHANGED <<options_name, _plugins, _plugin_status, restVars, startIterators>>
    /\ Proceed(Resume(Parked[i].event, Parked[i].next, Parked[i].stale, Parked[i].calls,
                      in_progress (-) SetToBag({Awaited(Parked[i])})),
               Parked[i].stale)

\* mutant: the loop catches what the handler raises and goes on
handler_raises_caught(i) ==
    /\ i \in DOMAIN Parked
    /\ suspended' = Others(i)
    /\ emit_event' = Parked[i].event
    /\ UNCHANGED <<options_name, _plugins, _plugin_status, restVars, startIterators>>
    /\ Proceed(Resume(Parked[i].event, Parked[i].next, Parked[i].stale, Parked[i].calls,
                      in_progress (-) SetToBag({Parked[i].calls[Len(Parked[i].calls)].plugin})),
               Parked[i].stale)

\* the handler that the i-th call in flight awaits raises: nothing in
\* emit_events catches it
handler_raises(i) ==
    /\ i \in DOMAIN Parked
    /\ suspended' = Others(i)
    /\ emit_event' = Parked[i].event
    /\ UNCHANGED <<options_name, _plugins, _plugin_status, restVars, startIterators>>
    /\ Proceed([pc |-> "done", exc |-> HandlerError, next |-> None,
                calls |-> Parked[i].calls,
                running |-> in_progress (-) SetToBag({Awaited(Parked[i])})],
               Parked[i].stale)

\* ------------------------------------------------------- the events tried

WrongType == "int"

\* the well-typed arguments of a kind
GoodArgs(event_name) ==
    IF event_name = "scan" THEN <<"str", "str", "str">> ELSE ArgTypes(event_name)

\* fewer arguments, more arguments, and one argument of the wrong class
ArgVariants(good) ==
    {SubSeq(good, 1, n) : n \in 0..Len(good)}
      \cup {good \o [i \in 1..n |-> WrongType] : n \in 1..MaxExtraArgs}
      \cup {[good EXCEPT ![i] = WrongType] : i \in 1..Len(good)}

EmitInputs ==
    {[event_name |-> k, args |-> a, kwargs |-> {}] :
        k \in DispatchedKinds, a \in {<<>>}} \cup
    UNION {{[event_name |-> k, args |-> a, kwargs |-> {}] : a \in ArgVariants(GoodArgs(k))} :
            k \in DispatchedKinds} \cup
    {[event_name |-> "scan", args |-> <<"str", "str", "NoneType">>, kwargs |-> {}],
     [event_name |-> "message", args |-> <<>>, kwargs |-> {"msg"}]} \cup
    {[event_name |-> k, args |-> <<"payload">>, kwargs |-> {}] : k \in OtherKinds}

\* ------------------------------------------------------------ mention text

\* Message.mention_text (spec.md 4.3; the expectations of
\* tests/user_message_test.py).  A text is a sequence of characters; a name
\* is a text too.

\* the members of fake_room (fixture, lines 63-69): display name and room
\* alias ("" when there is none).  'Wechaty User' is written "W U", 'Fake
\* User' "F U", 'Test User' "T U" and 'Fake Alias' "F A".
MemberDirectory ==
    [wechaty_user |-> [name |-> <<"W", " ", "U">>, alias |-> <<>>],
     fake_user    |-> [name |-> <<"F", " ", "U">>, alias |-> <<"F", " ", "A">>],
     test_user    |-> [name |-> <<"T", " ", "U">>, alias |-> <<>>]]

\* mutant: the display name is the token, whether there is an alias or not
Token_name(id, room) ==
    IF room = None \/ id \notin DOMAIN MemberDirectory
    THEN <<>>
    ELSE <<"@">> \o MemberDirectory[id].name

\* the token of a mentioned id: "@" and the member's room alias, or the
\* member's name when it has no alias; "" when the id resolves to no member
Token(id, room) ==
    IF room = None \/ id \notin DOMAIN MemberDirectory
    THEN <<>>
    ELSE <<"@">> \o (IF MemberDirectory[id].alias # <<>>
                     THEN MemberDirectory[id].alias
                     ELSE MemberDirectory[id].name)

Tokens(mention_ids, room) ==
    {Token(mention_ids[i], room) : i \in 1..Len(mention_ids)} \ {<<>>}

MatchAt(text, i, tok) ==
    /\ i + Len(tok) - 1 <= Len(text)
    /\ SubSeq(text, i, i + Len(tok) - 1) = tok

\* mutant: the blanks behind a token stay
SkipBlanks_none(text, i) == i

\* the first position from i on that holds no blank
RECURSIVE SkipBlanks(_, _)
SkipBlanks(text, i) ==
    IF i <= Len(text) /\ text[i] = " " THEN SkipBlanks(text, i + 1) ELSE i

\* one pass over the text from position i: a token found is left out, with the
\* blanks behind it; of two tokens found at a position the longer one counts
RECURSIVE Remove(_, _, _)
Remove(text, i, tokens) ==
    IF i > Len(text) THEN <<>>
    ELSE LET found == {tok \in tokens : MatchAt(text, i, tok)}
         IN  IF found = {}
             THEN <<text[i]>> \o Remove(text, i + 1, tokens)
             ELSE LET tok == CHOOSE t \in found : \A u \in found : Len(u) <= Len(t)
                  IN  Remove(text, SkipBlanks(text, i + Len(tok)), tokens)

\* leading and trailing blanks trimmed
RECURSIVE Strip(_)
Strip(text) ==
    IF text = <<>> THEN text
    ELSE IF text[1] = " " THEN Strip(Tail(text))
    ELSE IF text[Len(text)] = " " THEN Strip(SubSeq(text, 1, Len(text) - 1))
    ELSE text

\* mutant: every member of the room counts as mentioned
mention_text_of_all(text, room, mention_ids) ==
    Strip(Remove(text, 1, Tokens(<<"wechaty_user", "fake_user", "test_user">>, room)))

mention_text(text, room, mention_ids) ==
    IF mention_ids = <<>>
    THEN text
    ELSE Strip(Remove(text, 1, Tokens(mention_ids, room)))

\* the texts tried, put together from words, blanks and "@" + a name or an
\* alias, with and without a blank behind it
Pieces ==
    {<<"x">>, <<" ">>, <<"@", "W", " ", "U">>, <<"@", "W", " ", "U", " ">>,
     <<"@", "T", " ", "U", " ">>, <<"@", "F", " ", "A", " ">>,
     <<"@", "F", " ", "U", " ">>}
RECURSIVE Concat(_)
Concat(pieces) ==
    IF pieces = <<>> THEN <<>> ELSE Head(pieces) \o Concat(Tail(pieces))
PieceTexts == {Concat(ps) : ps \in UNION {[1..n -> Pieces] : n \in 0..MaxPieces}}

\* the texts of the fixture's six messages (lines 70-75), a word written "x":
\* 'foo bar asd', 'beep', '@Wechaty User @Test User test message asd',
\* '123123 @Wechaty User @Test User @Fake Alias kkasd',
\* '123123@Wechaty User @Test User @Fake User beep' and
\* '@Wechaty User @Test User @Fake Alias beep!!'
FixtureTexts ==
    LET x == <<"x">>
        b == <<" ">>
        W == <<"@", "W", " ", "U", " ">>
        T == <<"@", "T", " ", "U", " ">>
        FA == <<"@", "F", " ", "A", " ">>
        FU == <<"@", "F", " ", "U", " ">>
    IN  [no_mention |-> x \o b \o x \o b \o x,
         room_no_mention |-> x,
         room_with_mentions |-> W \o T \o x \o b \o x \o b \o x,
         room_with_mentions_and_alias |-> x \o b \o W \o T \o FA \o x,
         room_with_mentions_and_alias_mismatched |-> x \o W \o T \o FU \o x,
         room_with_text_mentions |-> W \o T \o FA \o x]

\* the texts tried: those of up to MaxPieces pieces and those of the fixture
Texts == PieceTexts \cup {FixtureTexts[m] : m \in DOMAIN FixtureTexts}

\* the lists of mentioned ids tried: those of the fixture's messages, one
\* member alone, and an id that names no member
MentionLists ==
    {<<>>, <<"wechaty_user">>, <<"fake_user">>, <<"wechaty_user", "test_user">>,
     <<"wechaty_user", "test_user", "fake_user">>, <<"stranger">>}

\* the messages tried: in the room with each of these lists, outside a room
\* with no mention and with one
Messages ==
    [text : Texts, room : {"fake_room"}, mention_ids : MentionLists]
      \cup [text : Texts, room : {None}, mention_ids : {<<>>, <<"wechaty_user">>}]

NoMessage == [text |-> <<>>, room |-> None, mention_ids |-> <<>>]

NoResult == [done |-> FALSE, text |-> <<>>]

\* await msg.mention_text()
MentionText ==
    /\ ~mention_result.done
    /\ mention_result' =
          [done |-> TRUE, text |-> mention_text(msg.text, msg.room, msg.mention_ids)]
    /\ UNCHANGED <<options_name, _plugins, _plugin_status, iterators, emitVars,
                   set_bot_calls, web_tasks, output, msg, startVars>>

\* ------------------------------------------------------------------- init

NoEvent == [event_name |-> None, args |-> <<>>, kwargs |-> {}]
NoCall == [op |-> None, arg |-> None, exc |-> None, value |-> None, warning |-> FALSE]

\* the manager and the plugins as constructed
Constructed ==
    /\ options_name = [p \in MorePlugins |-> PluginOptionsName[PluginIndex(p)]]
    /\ _plugins = <<>>
    /\ _plugin_status = [k \in {} |-> Running]
    /\ emit_pc = "idle"
    /\ emit_event = NoEvent
    /\ emit_exc = None
    /\ emit_calls = <<>>
    /\ in_progress = EmptyBag
    /\ di_current = None
    /\ di_stale = FALSE
    /\ suspended = <<>>
    /\ set_bot_calls = [p \in MorePlugins |-> 0]
    /\ web_tasks = 0
    /\ start_pc = "idle"
    /\ start_exc = None
    /\ st_plugin = None
    /\ st_current = None
    /\ st_stale = FALSE
    /\ suspended_starts = <<>>
    /\ start_calls = 0
    /\ output = [p \in MorePlugins |-> EmptyDict]
    /\ status_at_emit = EmptyDict
    /\ ret = NoCall
    /\ first_added = <<>>

Init ==
    /\ Constructed
    /\ msg = NoMessage
    /\ mention_result = NoResult

\* any message of the bounded set, its mention text not asked for yet
InitMention ==
    /\ Constructed
    /\ msg \in Messages
    /\ mention_result = NoResult

\* ------------------------------------------------------- next-state relations

\* the calls of the registry's methods, with any argument
AddPlugin(out) == \E plugin \in Plugins \cup Locators : add_plugin(plugin, out)
RemovePlugin(out) == \E n \in Names : remove_plugin(n, out)
StopPlugin(out) == \E n \in Names : stop_plugin(n, out)
StartPlugin(out) == \E n \in Names : start_plugin(n, out)
PluginStatus(out) == \E n \in Names : plugin_status(n, out)

Emit(inputs) == \E ev \in inputs : emit_events(ev.event_name, ev.args, ev.kwargs)

Unobserved == UNCHANGED <<ret, first_added, status_at_emit>>

\* a second event while the first is in flight
Emit2(inputs) == Parked # <<>> /\ Emit(inputs)

\* one event at a time: the next one when the call before it has ended
Emit1(inputs) == Parked = <<>> /\ Emit(inputs)

\* the events emitted while another one is in flight
ConcurrentInputs ==
    {[event_name |-> "message", args |-> <<>>, kwargs |-> {}],
     [event_name |-> "login", args |-> <<"Contact">>, kwargs |-> {}],
     [event_name |-> "logout", args |-> <<"payload">>, kwargs |-> {}]}

\* every call and every event, and a second event while one is in flight; how
\* the calls end is not recorded
Next ==
    \/ Unobserved /\ \E out \in Outcomes : AddPlugin(out)
    \/ Unobserved /\ \E out \in Outcomes : RemovePlugin(out)
    \/ Unobserved /\ \E out \in Outcomes : StopPlugin(out)
    \/ Unobserved /\ \E out \in Outcomes : StartPlugin(out)
    \/ Unobserved /\ \E out \in Outcomes : PluginStatus(out)
    \/ Unobserved /\ Emit1(EmitInputs)
    \/ Unobserved /\ Emit2(ConcurrentInputs)
    \/ Unobserved /\ \E i \in DOMAIN Parked : handler_returns(i)
    \/ Unobserved /\ \E i \in DOMAIN Parked : handler_raises(i)

Spec == Init /\ [][Next]_vars

\* Events with well-typed arguments, one per branch of emit_events
GoodEvents ==
    {[event_name |-> k, args |-> GoodArgs(k), kwargs |-> {}] : k \in DispatchedKinds}

\* The events of the specifications that record the registry's calls
FewEvents ==
    {[event_name |-> "message", args |-> a, kwargs |-> {}] : a \in {<<>>, <<"Message">>}}

Observed(op, arg, out) ==
    [op |-> op, arg |-> arg, exc |-> out.exc, value |-> out.value, warning |-> out.warning]

\* the registry's calls with ret recording the latest call and how it ended
NextCalls ==
    \/ \E plugin \in Plugins \cup Locators, out \in Outcomes :
          /\ add_plugin(plugin, out)
          /\ ret' = Observed("add_plugin", plugin, out)
          /\ UNCHANGED <<first_added, status_at_emit>>
    \/ \E n \in Names, out \in Outcomes :
          /\ remove_plugin(n, out)
          /\ ret' = Observed("remove_plugin", n, out)
          /\ UNCHANGED <<first_added, status_at_emit>>
    \/ \E n \in Names, out \in Outcomes :
          /\ stop_plugin(n, out)
          /\ ret' = Observed("stop_plugin", n, out)
          /\ UNCHANGED <<first_added, status_at_emit>>
    \/ \E n \in Names, out \in Outcomes :
          /\ start_plugin(n, out)
          /\ ret' = Observed("start_plugin", n, out)
          /\ UNCHANGED <<first_added, status_at_emit>>
    \/ \E n \in Names, out \in Outcomes :
          /\ plugin_status(n, out)
          /\ ret' = Observed("plugin_status", n, out)
          /\ UNCHANGED <<first_added, status_at_emit>>
    \/ Unobserved /\ Emit1(FewEvents)
    \/ Unobserved /\ \E i \in DOMAIN Parked : handler_returns(i)
    \/ Unobserved /\ \E i \in DOMAIN Parked : handler_raises(i)

SpecCalls == Init /\ [][NextCalls]_vars

\* the registry's calls alone, no event in flight, with one more plugin; ret
\* records the latest call and how it ended
NextRegistry ==
    \/ \E plugin \in MorePlugins \cup Locators, out \in Outcomes :
          /\ add_plugin(plugin, out)
          /\ ret' = Observed("add_plugin", plugin, out)
          /\ UNCHANGED <<first_added, status_at_emit>>
    \/ \E n \in MoreNames, out \in Outcomes :
          /\ remove_plugin(n, out)
          /\ ret' = Observed("remove_plugin", n, out)
          /\ UNCHANGED <<first_added, status_at_emit>>
    \/ \E n \in MoreNames, out \in Outcomes :
          /\ stop_plugin(n, out)
          /\ ret' = Observed("stop_plugin", n, out)
          /\ UNCHANGED <<first_added, status_at_emit>>
    \/ \E n \in MoreNames, out \in Outcomes :
          /\ start_plugin(n, out)
          /\ ret' = Observed("start_plugin", n, out)
          /\ UNCHANGED <<first_added, status_at_emit>>
    \/ \E n \in MoreNames, out \in Outcomes :
          /\ plugin_status(n, out)
          /\ ret' = Observed("plugin_status", n, out)
          /\ UNCHANGED <<first_added, status_at_emit>>

SpecRegistry == Init /\ [][NextRegistry]_vars

\* add_plugin, stop_plugin, start_plugin and the manager's start(), in any order
NextStart ==
    \/ Unobserved /\ \E out \in Outcomes : AddPlugin(out)
    \/ Unobserved /\ \E out \in Outcomes : StopPlugin(out)
    \/ Unobserved /\ \E out \in Outcomes : StartPlugin(out)
    \/ Unobserved /\ \E stop \in StopPoints : start(stop)
    \/ Unobserved /\ \E i \in DOMAIN StartParked, stop \in StopPoints : hook_returns(i, stop)
    \/ Unobserved /\ \E i \in DOMAIN StartParked : hook_raises(i)
    \/ Unobserved /\ \E plugin \in Plugins : set_bot(plugin)

SpecStart == Init /\ [][NextStart]_vars

\* add_plugin, the manager's start() and message events, in any order
NextBound ==
    \/ Unobserved /\ \E out \in Outcomes : AddPlugin(out)
    \/ Unobserved /\ \E stop \in StopPoints : start(stop)
    \/ Unobserved /\ \E i \in DOMAIN StartParked, stop \in StopPoints : hook_returns(i, stop)
    \/ Unobserved /\ \E i \in DOMAIN StartParked : hook_raises(i)
    \/ Unobserved /\ \E plugin \in Plugins : set_bot(plugin)
    \/ Unobserved /\ Emit1(FewEvents)
    \/ Unobserved /\ \E i \in DOMAIN Parked : handler_returns(i)

SpecBound == Init /\ [][NextBound]_vars

\* the plugins write their output and the application reads it; ret records
\* the latest of these calls
NextOutput ==
    \/ \E plugin \in Plugins, key \in OutputKeys, value \in OutputValues :
          /\ write_output(plugin, key, value)
          /\ ret' = Observed("write_output", plugin,
                             Return([key |-> key, value |-> value], FALSE))
          /\ UNCHANGED <<first_added, status_at_emit>>
    \/ \E plugin \in Plugins, out \in OutputOutcomes :
          /\ get_output(plugin, out)
          /\ ret' = Observed("get_output", plugin, out)
          /\ UNCHANGED <<first_added, status_at_emit>>

SpecOutput == Init /\ [][NextOutput]_vars

\* add, stop, start and message events one at a time, with one more plugin;
\* status_at_emit records the statuses at the call of emit_events
NextWindow ==
    \/ Unobserved /\ \E plugin \in MorePlugins, out \in Outcomes : add_plugin(plugin, out)
    \/ Unobserved /\ \E n \in MoreNames, out \in Outcomes : stop_plugin(n, out)
    \/ Unobserved /\ \E n \in MoreNames, out \in Outcomes : start_plugin(n, out)
    \/ /\ Emit1({[event_name |-> "message", args |-> <<"Message">>, kwargs |-> {}]})
       /\ status_at_emit' = _plugin_status
       /\ UNCHANGED <<ret, first_added>>
    \/ Unobserved /\ \E i \in DOMAIN Parked : handler_returns(i)

SpecWindow == Init /\ [][NextWindow]_vars

\* mention_text applied to one message
NextMention == Unobserved /\ MentionText

SpecMention == InitMention /\ [][NextMention]_vars

\* the names of od' that first_added has not seen, in od's order, after first_added
FirstAdded(seen, od) ==
    seen \o SelectSeq(Keys(od), LAMBDA k : k \notin {seen[i] : i \in 1..Len(seen)})

\* add, stop, start and events, never remove; first_added records the order in
\* which the names were first registered
NextOrder ==
    \/ /\ \E out \in Outcomes : AddPlugin(out)
       /\ first_added' = FirstAdded(first_added, _plugins')
       /\ UNCHANGED <<ret, status_at_emit>>
    \/ Unobserved /\ \E out \in Outcomes : StopPlugin(out)
    \/ Unobserved /\ \E out \in Outcomes : StartPlugin(out)
    \/ Unobserved /\ Emit1(GoodEvents)
    \/ Unobserved /\ \E i \in DOMAIN Parked : handler_returns(i)
    \/ Unobserved /\ \E i \in DOMAIN Parked : handler_raises(i)

SpecOrder == Init /\ [][NextOrder]_vars

\* ================================================================== claims

\* a step that is a call of emit_events
EmitCalled == suspended' = Parked /\ (emit_pc = "handler" \/ emitVars' # emitVars)

\* the calls in flight whose awaited handler returns in a step
Returning == {i \in DOMAIN Parked : handler_returns(i)}

\* the handler invocations a step adds: those of a call of emit_events up to
\* its first await, or those that follow the return of the awaited handler
NewCalls ==
    IF EmitCalled
    THEN {emit_calls'[j] : j \in 1..Len(emit_calls')}
    ELSE UNION {{emit_calls'[j] : j \in (Len(Parked[i].calls) + 1)..Len(emit_calls')} :
                  i \in Returning}

\* C1: a Stopped plugin never receives an event: whenever a step invokes a
\* handler of a plugin, that plugin's status at that moment is not Stopped
\* (it is registered with status Running).
C1_StoppedNeverReceives ==
    [][\A c \in NewCalls :
          /\ c.name \in DOMAIN _plugin_status
          /\ _plugin_status[c.name] # Stopped
          /\ _plugin_status[c.name] = Running]_vars

\* an event went past a registered Stopped plugin and was delivered to a
\* plugin after it in dispatch order
C1_Witness ==
    /\ ~di_stale
    /\ Len(_plugins) >= 2
    /\ _plugin_status[_plugins[1].name] = Stopped
    /\ Len(emit_calls) = 1
    /\ emit_calls[1].name = _plugins[2].name
    /\ emit_pc = "done"
    /\ emit_exc = None

\* the arguments the contract table of emit allows for a kind: the arity and
\* the type of each position; for scan the third one, data, may be absent
SatisfiesContract(ev) ==
    /\ ev.event_name \in DispatchedKinds
    /\ ev.kwargs = {}
    /\ IF ev.event_name = "scan"
       THEN /\ Len(ev.args) \in {2, 3}
            /\ ev.args[1] = "str"
            /\ ev.args[2] = "str"
            /\ Len(ev.args) = 3 => ev.args[3] \in {"str", "NoneType"}
       ELSE ev.args = ArgTypes(ev.event_name)

\* the step in which a call of emit_events ends
EmitEnds == emit_pc' = "done" /\ emitVars' # emitVars

\* how many times the handler of the event's kind was invoked on a plugin
Invocations(calls, ev, plugin) ==
    Cardinality({i \in 1..Len(calls) :
                    calls[i].plugin = plugin /\ calls[i].handler = Handler(ev.event_name)})

\* C2: when a call of emit_events whose arguments satisfy the contract of its
\* kind ends, every plugin registered with status Running has had its handler
\* for that kind invoked exactly once.
C2_RunningAlwaysReceives ==
    [][(EmitEnds /\ SatisfiesContract(emit_event'))
          => \A i \in 1..Len(_plugins') :
                _plugin_status'[_plugins'[i].name] = Running
                   => Invocations(emit_calls', emit_event', _plugins'[i].plugin) = 1]_vars

Position(seq, x) == CHOOSE i \in 1..Len(seq) : seq[i] = x

\* C3: with add, stop and start only, the dispatch order is the order in which
\* the names were first added, whatever was stopped and started since, and one
\* emit invokes the handlers in that order.
C3_DispatchInRegistrationOrder ==
    /\ Keys(_plugins) = first_added
    /\ \A i, j \in 1..Len(emit_calls) :
          i < j => Position(first_added, emit_calls[i].name)
                      < Position(first_added, emit_calls[j].name)

\* the first plugin was Stopped when the event went past it to the second one
\* and has been started again since: it is still first in dispatch order
C3_Witness ==
    /\ Len(_plugins) >= 2
    /\ emit_pc = "handler"
    /\ ~di_stale
    /\ Len(emit_calls) = 1
    /\ emit_calls[1].name = first_added[2]
    /\ _plugins[1].name = first_added[1]
    /\ _plugin_status[first_added[1]] = Running

\* C4: in every reachable state the names of the name-to-plugin map are the
\* names of the name-to-status map.
C4_MapsInLockStep == KeySet(_plugins) = DOMAIN _plugin_status

\* a call has just failed on a registry that holds a Running and a Stopped plugin
C4_Witness ==
    /\ ret.exc = WechatyPluginError
    /\ ret.op \in {"remove_plugin", "start_plugin", "stop_plugin"}
    /\ Len(_plugins) = 2
    /\ \E a, b \in DOMAIN _plugin_status :
          _plugin_status[a] = Running /\ _plugin_status[b] = Stopped

\* C5: add_plugin with a plugin object whose name is registered raises nothing
\* and leaves the name-to-plugin map (size, order, instances) and every status
\* as they were.
C5_DuplicateAddIsNoOp ==
    [][\A plugin \in Plugins, out \in Outcomes :
          (name(plugin) \in KeySet(_plugins) /\ add_plugin(plugin, out))
             => /\ out.exc = None
                /\ _plugins' = _plugins
                /\ _plugin_status' = _plugin_status]_vars

\* add_plugin was just called with another object of a registered name, whose
\* plugin is Stopped: the first object is still the one registered
C5_Witness ==
    /\ ret.op = "add_plugin"
    /\ ret.arg \in Plugins
    /\ ret.exc = None
    /\ ret.warning
    /\ \E i \in 1..Len(_plugins) :
          /\ _plugins[i].name = name(ret.arg)
          /\ _plugins[i].plugin # ret.arg
          /\ _plugin_status[_plugins[i].name] = Stopped
    /\ Len(_plugins) = 2

\* C6: remove_plugin, start_plugin, stop_plugin and plugin_status with a name
\* that is not registered raise WechatyPluginError and leave the registry as it
\* was.
C6_UnknownNameFails ==
    [][\A n \in Names, out \in Outcomes :
          (/\ n \notin KeySet(_plugins)
           /\ \/ remove_plugin(n, out)
              \/ start_plugin(n, out)
              \/ stop_plugin(n, out)
              \/ plugin_status(n, out))
             => /\ out = Raise(WechatyPluginError)
                /\ _plugins' = _plugins
                /\ _plugin_status' = _plugin_status]_vars

\* stop_plugin has just failed for a name the non-empty registry does not hold
C6_Witness ==
    /\ ret.op = "stop_plugin"
    /\ ret.arg \notin KeySet(_plugins)
    /\ ret.exc = WechatyPluginError
    /\ Len(_plugins) >= 1

\* the arity the contract table gives the kinds of C7
ClaimedArity(event_name) ==
    CASE event_name \in {"friendship", "login", "room-invite"} -> 1
      [] event_name \in {"room-join", "room-leave"} -> 4
      [] event_name = "room-topic" -> 5

ArityKinds == {"friendship", "login", "room-invite", "room-join", "room-leave", "room-topic"}

WrongArity(ev) ==
    ev.event_name \in ArityKinds /\ Len(ev.args) # ClaimedArity(ev.event_name)

\* C7: an emit of friendship, login, room-invite, room-join, room-leave or
\* room-topic with another number of arguments than the kind's arity ends with
\* WechatyPluginError and no handler is invoked, whatever the plugins' statuses.
C7_WrongArityRejected ==
    WrongArity(emit_event)
       => /\ emit_pc = "done"
          /\ emit_exc = WechatyPluginError
          /\ emit_calls = <<>>

\* room-join was emitted with five arguments while a Running plugin is registered
C7_Witness ==
    /\ emit_event.event_name = "room-join"
    /\ Len(emit_event.args) = 5
    /\ emit_exc = WechatyPluginError
    /\ \E n \in DOMAIN _plugin_status : _plugin_status[n] = Running

\* the calls of C8 whose argument has the wrong type
TypeMismatch(ev) ==
    \/ ev.event_name = "message" /\ Len(ev.args) = 1 /\ ev.args[1] # "Message"
    \/ /\ ev.event_name = "room-join"
       /\ Len(ev.args) = 4
       /\ ev.args[2] # "list"

\* C8: emit("message") with no argument, emit("message", x) with x not a
\* Message and emit("room-join", ...) with invitees not a list all end with the
\* error of an arity mismatch, WechatyPluginError, and invoke no handler.
C8_TypeMismatchIsContractViolation ==
    (\/ emit_event.event_name = "message" /\ emit_event.args = <<>> /\ emit_event.kwargs = {}
     \/ TypeMismatch(emit_event))
       => /\ emit_pc = "done"
          /\ emit_exc = WechatyPluginError
          /\ emit_calls = <<>>

\* the key the loop was at before a step that invokes a handler, as a position
\* of the dispatch order: the first one for a call of emit_events
Cursor ==
    IF EmitCalled THEN 1 ELSE IndexOf(_plugins, Parked[CHOOSE i \in Returning : TRUE].next)

\* C9: when the awaited handler raises, emit_events ends with that error, no
\* handler is invoked any more and the registry is as it was; the plugins that
\* received the event before are all those that were Running when the loop
\* came to them (the loop passes over no Running plugin on its way to the
\* next handler).
C9_HandlerErrorAbortsFanout ==
    /\ [][\A i \in DOMAIN Parked :
            handler_raises(i)
               => /\ emit_pc' = "done"
                  /\ emit_exc' = HandlerError
                  /\ emit_calls' = Parked[i].calls
                  /\ in_progress' = in_progress (-) SetToBag({Awaited(Parked[i])})
                  /\ Parked' = Others(i)
                  /\ _plugins' = _plugins
                  /\ _plugin_status' = _plugin_status]_vars
    /\ [][\A c \in NewCalls :
            \A i \in Cursor..(IndexOf(_plugins, c.name) - 1) :
               _plugin_status[_plugins[i].name] # Running]_vars

\* the handler of the first plugin raised: the second one is Running and has
\* not received the event
C9_Witness ==
    /\ emit_pc = "done"
    /\ emit_exc = HandlerError
    /\ Len(_plugins) = 2
    /\ Len(emit_calls) = 1
    /\ emit_calls[1].name = _plugins[1].name
    /\ _plugin_status[_plugins[2].name] = Running

\* C10: the handlers of one emit run one after the other: each call in
\* flight has one handler in progress, the one it awaits, and a step that
\* invokes the next handler of a call is the step in which the handler that
\* call awaited has completed.
C10_HandlersRunSequentially ==
    /\ [](/\ BagCardinality(in_progress) = Len(Parked)
          /\ \A plugin \in BagToSet(in_progress) :
                CopiesIn(plugin, in_progress) =
                   Cardinality({i \in DOMAIN Parked : Awaited(Parked[i]) = plugin}))
    /\ [][NewCalls # {}
            => /\ Cardinality(NewCalls) = 1
               /\ \A i \in Returning :
                     in_progress' =
                        (in_progress (-) SetToBag({Awaited(Parked[i])}))
                           (+) SetToBag({emit_calls'[Len(emit_calls')].plugin})]_vars

\* the first handler is in progress; the next plugin in dispatch order is
\* Running and has to wait
C10_Witness ==
    /\ emit_pc = "handler"
    /\ ~di_stale
    /\ Len(emit_calls) = 1
    /\ in_progress = SetToBag({_plugins[1].plugin})
    /\ di_current # None
    /\ _plugin_status[di_current] = Running

\* C11: emit("scan", qr, status) with two strings and no data raises nothing,
\* and what it invokes is on_scan(qr, status, no data).
C11_ScanWithoutDataAccepted ==
    (/\ emit_event.event_name = "scan"
     /\ emit_event.args = <<"str", "str">>
     /\ emit_event.kwargs = {})
       => /\ emit_exc = None
          /\ \A i \in 1..Len(emit_calls) :
                /\ emit_calls[i].handler = "on_scan"
                /\ emit_calls[i].args = <<"str", "str", None>>

\* the kinds of C12 and the handler of WechatyPlugin each one is named after
PayloadKinds == {"error", "heartbeat", "ready"}

PayloadHandler(event_name) ==
    CASE event_name = "error" -> "on_error"
      [] event_name = "heartbeat" -> "on_heartbeat"
      [] event_name = "ready" -> "on_ready"

\* the first plugin in dispatch order that is Running, or 0
FirstRunning ==
    IF \E i \in 1..Len(_plugins) : _plugin_status[_plugins[i].name] = Running
    THEN CHOOSE i \in 1..Len(_plugins) :
            /\ _plugin_status[_plugins[i].name] = Running
            /\ \A j \in 1..(i - 1) : _plugin_status[_plugins[j].name] # Running
    ELSE 0

\* C12: a call of emit_events with kind error, heartbeat or ready and one
\* payload invokes on_error, on_heartbeat or on_ready with that payload, first
\* on the first Running plugin in dispatch order.
C12_PayloadKindsDispatched ==
    [][(/\ EmitCalled
        /\ emit_event'.event_name \in PayloadKinds
        /\ Len(emit_event'.args) = 1
        /\ FirstRunning # 0)
          => /\ emit_calls' # <<>>
             /\ emit_calls'[1].plugin = _plugins[FirstRunning].plugin
             /\ emit_calls'[1].handler = PayloadHandler(emit_event'.event_name)
             /\ emit_calls'[1].args = emit_event'.args]_vars

\* C13: remove_plugin with a registered name raises nothing and takes the name
\* out of both maps in the one call: plugin_status of that name then raises
\* WechatyPluginError, and the other plugins keep their order, their objects
\* and their statuses.
C13_RemoveTakesBothOut ==
    [][\A n \in MoreNames, out \in Outcomes :
          (n \in KeySet(_plugins) /\ remove_plugin(n, out))
             => /\ out = Return(None, FALSE)
                /\ n \notin KeySet(_plugins')
                /\ n \notin DOMAIN _plugin_status'
                /\ plugin_status_result(n)' = Raise(WechatyPluginError)
                /\ _plugins' = SelectSeq(_plugins, LAMBDA e : e.name # n)
                /\ _plugin_status' = [k \in (DOMAIN _plugin_status) \ {n} |-> _plugin_status[k]]]_vars

\* Echo has just been removed; two other plugins are left, the first of them
\* Stopped and the second Running
C13_Witness ==
    /\ ret.op = "remove_plugin"
    /\ ret.exc = None
    /\ ret.arg = "Echo"
    /\ Keys(_plugins) = <<"DingDong", "Greeter">>
    /\ _plugin_status["DingDong"] = Stopped
    /\ _plugin_status["Greeter"] = Running

\* C14: add_plugin with a plugin object whose name is not registered raises
\* nothing, puts the plugin last in dispatch order with status Running, and
\* leaves the other plugins' places, objects and statuses as they were, in
\* every reachable state (the name may have been registered, stopped and
\* removed before: no status of a removed name is kept).
C14_NewPluginGoesLastRunning ==
    [][\A plugin \in MorePlugins, out \in Outcomes :
          (name(plugin) \notin KeySet(_plugins) /\ add_plugin(plugin, out))
             => /\ out = Return(None, FALSE)
                /\ _plugins' = Append(_plugins, [name |-> name(plugin), plugin |-> plugin])
                /\ name(plugin) \notin DOMAIN _plugin_status
                /\ _plugin_status' =
                      [k \in (DOMAIN _plugin_status) \cup {name(plugin)} |->
                          IF k = name(plugin) THEN Running ELSE _plugin_status[k]]]_vars

\* a plugin has just been added behind two others that are both Stopped
C14_Witness ==
    /\ ret.op = "add_plugin"
    /\ ret.exc = None
    /\ ~ret.warning
    /\ Len(_plugins) = 3
    /\ _plugins[3].plugin = ret.arg
    /\ _plugin_status[_plugins[1].name] = Stopped
    /\ _plugin_status[_plugins[2].name] = Stopped
    /\ _plugin_status[_plugins[3].name] = Running

\* C15: stop_plugin and start_plugin with a registered name never raise;
\* stop_plugin leaves the name Stopped and start_plugin leaves it Running,
\* whatever its status was, and neither changes another plugin's status or the
\* dispatch order.
C15_StopStartIdempotent ==
    [][\A n \in MoreNames, out \in Outcomes :
          /\ (n \in KeySet(_plugins) /\ stop_plugin(n, out))
                => /\ out.exc = None
                   /\ _plugin_status' = [_plugin_status EXCEPT ![n] = Stopped]
                   /\ _plugins' = _plugins
          /\ (n \in KeySet(_plugins) /\ start_plugin(n, out))
                => /\ out.exc = None
                   /\ _plugin_status' = [_plugin_status EXCEPT ![n] = Running]
                   /\ _plugins' = _plugins]_vars

\* stop_plugin has just been called for a plugin that was Stopped already,
\* while the plugin after it is Running
C15_Witness ==
    /\ ret.op = "stop_plugin"
    /\ ret.exc = None
    /\ ret.warning
    /\ Len(_plugins) = 3
    /\ ret.arg = _plugins[2].name
    /\ _plugin_status[ret.arg] = Stopped
    /\ _plugin_status[_plugins[3].name] = Running

\* C16: add_plugin with a string, url or not, raises WechatyPluginError and
\* leaves the plugins, their order and their statuses as they were, also when
\* the string is the name of a registered plugin.
C16_LocatorAlwaysFails ==
    [][\A s \in Locators, out \in Outcomes :
          add_plugin(s, out)
             => /\ out = Raise(WechatyPluginError)
                /\ _plugins' = _plugins
                /\ _plugin_status' = _plugin_status]_vars

\* add_plugin has just failed for the string that is the name of a registered,
\* Stopped plugin
C16_Witness ==
    /\ ret.op = "add_plugin"
    /\ ret.arg \in Locators
    /\ ret.exc = WechatyPluginError
    /\ ret.arg \in KeySet(_plugins)
    /\ _plugin_status[ret.arg] = Stopped
    /\ Len(_plugins) = 2

\* C17: every registered plugin is bound to the bot exactly once, however
\* add_plugin, the manager's start(), stop_plugin and start_plugin are ordered:
\* set_bot is never called twice on a plugin, and once the manager's start() has
\* run every registered plugin is bound, the ones added afterwards too.
C17_BoundExactlyOnce ==
    \A i \in 1..Len(_plugins) :
       /\ set_bot_calls[_plugins[i].plugin] <= 1
       /\ web_tasks > 0 => set_bot_calls[_plugins[i].plugin] = 1

\* C18: get_output returns what the plugin's buffer holds and empties it,
\* leaving the other plugins' buffers alone: a get_output that follows a
\* get_output of the same plugin with no call in between returns the empty
\* dict, and one that follows a write returns what was written.
C18_OutputDrainsOnRead ==
    [][\A plugin \in Plugins, out \in OutputOutcomes :
          get_output(plugin, out)
             => /\ out.value = output[plugin]
                /\ output'[plugin] = EmptyDict
                /\ \A q \in Plugins \ {plugin} : output'[q] = output[q]
                /\ (ret.op = "get_output" /\ ret.arg = plugin) => out.value = EmptyDict
                /\ (ret.op = "write_output" /\ ret.arg = plugin)
                      => /\ ret.value.key \in DOMAIN out.value
                         /\ out.value[ret.value.key] = ret.value.value]_vars

\* get_output has just returned both keys of a plugin's buffer, which is empty
\* now, while another plugin's buffer is not
C18_Witness ==
    /\ ret.op = "get_output"
    /\ DOMAIN ret.value = OutputKeys
    /\ output[ret.arg] = EmptyDict
    /\ \E q \in Plugins : output[q] # EmptyDict

\* does the text hold tok, and how many times
Occurrences(text, tok) == Cardinality({i \in 1..Len(text) : MatchAt(text, i, tok)})
Contains(text, tok) == Occurrences(text, tok) > 0

\* C19: with an empty list of mentioned ids mention_text returns the text as it
\* is, for a message in a room or not, whatever "@name" or "@alias" the text
\* holds.
C19_NoMentionsTextUnchanged ==
    (mention_result.done /\ msg.mention_ids = <<>>) => mention_result.text = msg.text

\* a room message that holds "@" + a member's name and a blank at its end, with
\* no mentioned id: returned as it is
C19_Witness ==
    /\ mention_result.done
    /\ msg.mention_ids = <<>>
    /\ msg.room # None
    /\ Contains(msg.text, Token("wechaty_user", msg.room))
    /\ Contains(msg.text, Token("fake_user", msg.room))
    /\ msg.text[Len(msg.text)] = " "
    /\ mention_result.text = msg.text

\* a text without its blanks
NoBlanks(text) == SelectSeq(text, LAMBDA c : c # " ")

\* "@" + the display name and "@" + the room alias of the member with an alias
FakeName == <<"@">> \o MemberDirectory["fake_user"].name
FakeAlias == <<"@">> \o MemberDirectory["fake_user"].alias

\* C20: for a mentioned member with a room alias only "@" + alias is removed:
\* no "@" + name of that member is taken out of the text, a text without the
\* alias token keeps all its content, and a text with it gets shorter.
C20_AliasTakesPrecedence ==
    (mention_result.done /\ msg.room # None /\ msg.mention_ids = <<"fake_user">>)
       => /\ Occurrences(mention_result.text, FakeName)
                >= Occurrences(msg.text, FakeName)
          /\ ~Contains(msg.text, FakeAlias)
                => NoBlanks(mention_result.text) = NoBlanks(msg.text)
          /\ Contains(msg.text, FakeAlias)
                => Len(mention_result.text) < Len(msg.text)

\* the member with an alias is mentioned and the text holds "@" + its name but
\* not "@" + its alias: the name token is still there
C20_Witness ==
    /\ mention_result.done
    /\ msg.room # None
    /\ msg.mention_ids = <<"fake_user">>
    /\ Contains(msg.text, FakeName)
    /\ ~Contains(msg.text, FakeAlias)
    /\ Contains(mention_result.text, FakeName)

\* the positions of a text that lie in an occurrence of one of the tokens
Covered(text, tokens) ==
    {i \in 1..Len(text) :
        \E tok \in tokens, j \in 1..i : MatchAt(text, j, tok) /\ i < j + Len(tok)}

\* a set of positions in ascending order
RECURSIVE Ascending(_)
Ascending(S) ==
    IF S = {} THEN <<>>
    ELSE LET m == CHOOSE x \in S : \A y \in S : x <= y
         IN  <<m>> \o Ascending(S \ {m})

NoAdjacentBlanks(text) ==
    \A i \in 1..(Len(text) - 1) : ~(text[i] = " " /\ text[i + 1] = " ")

\* C21: for a room message with mentioned ids, the result of mention_text has
\* no blank at either end; its non-blank characters are those of the text that
\* lie in no token of a mentioned member, in the same order (every token found
\* is removed, nothing else is); and, in a text without runs of blanks, two
\* words around removed tokens are one blank apart when the first was followed
\* by a blank, never more.
C21_TokensRemovedBlanksCollapsed ==
    (mention_result.done /\ msg.mention_ids # <<>>)
       => LET t == msg.text
              r == mention_result.text
              cov == Covered(t, Tokens(msg.mention_ids, msg.room))
              tp == Ascending({i \in 1..Len(t) : i \notin cov /\ t[i] # " "})
              rp == Ascending({i \in 1..Len(r) : r[i] # " "})
          IN  /\ r # <<>> => (r[1] # " " /\ r[Len(r)] # " ")
              /\ Len(rp) = Len(tp)
              /\ \A k \in 1..Len(rp) : r[rp[k]] = t[tp[k]]
              /\ NoAdjacentBlanks(t)
                    => \A k \in 1..(Len(rp) - 1) :
                          rp[k + 1] - rp[k] - 1 =
                             IF t[tp[k] + 1] = " " THEN 1 ELSE 0

\* "x @W U @T U x" with both members mentioned gives "x x"
C21_Witness ==
    /\ mention_result.done
    /\ msg.text = <<"x", " ", "@", "W", " ", "U", " ", "@", "T", " ", "U", " ", "x">>
    /\ msg.mention_ids = <<"wechaty_user", "test_user">>
    /\ mention_result.text = <<"x", " ", "x">>

\* the last position the loop comes to in a step: that of the handler it
\* invokes, or the end of the dispatch order
Reached ==
    IF emit_pc' = "handler"
    THEN IndexOf(_plugins, emit_calls'[Len(emit_calls')].name)
    ELSE Len(_plugins)

\* C22: the status is looked up when the loop comes to a plugin, not when
\* emit_events is called.  When the awaited handler returns and the loop goes
\* on (no plugin added or removed meanwhile), each plugin it comes to is
\* invoked if and only if its status is Running at that moment, whatever the
\* status was when the emit began; and a stop_plugin or start_plugin during a
\* handler leaves the delivery in progress as it is.
C22_StatusCheckedAtDispatch ==
    /\ [][\A i \in Returning :
            (~Parked[i].stale /\ Parked[i].next # None)
               => \A k \in IndexOf(_plugins, Parked[i].next)..Reached :
                     (\E c \in NewCalls : c.name = _plugins[k].name)
                        <=> _plugin_status[_plugins[k].name] = Running]_vars
    /\ [][(Parked # <<>> /\ _plugin_status' # _plugin_status)
             => /\ Len(Parked') = Len(Parked)
                /\ \A i \in DOMAIN Parked :
                      /\ Parked'[i].event = Parked[i].event
                      /\ Parked'[i].calls = Parked[i].calls
                      /\ Parked'[i].next = Parked[i].next
                /\ in_progress' = in_progress]_vars

\* one emit in flight over three plugins: the second was Running when it began
\* and has not received the event, the third was Stopped then and is the one
\* whose handler is awaited, Stopped again by now
C22_Witness ==
    /\ emit_pc = "handler"
    /\ ~di_stale
    /\ Len(_plugins) = 3
    /\ DOMAIN status_at_emit = KeySet(_plugins)
    /\ status_at_emit[_plugins[2].name] = Running
    /\ status_at_emit[_plugins[3].name] = Stopped
    /\ Len(emit_calls) = 2
    /\ emit_calls[1].name = _plugins[1].name
    /\ emit_calls[2].name = _plugins[3].name
    /\ in_progress = SetToBag({_plugins[3].plugin})
    /\ _plugin_status[_plugins[3].name] = Stopped

\* the loop of a call in flight as it would go on from the key its iterator
\* yields next
Continued(f) == Fanout(f.event, f.next, f.calls, in_progress (-) SetToBag({Awaited(f)}))

\* C23: an add_plugin or remove_plugin that completes while an emit is
\* suspended in a handler never makes that emit fail.  When the handler
\* returns, the dispatcher raises nothing, and the loop goes on from the next
\* plugin of the dispatch order (if it is still registered), delivering to
\* the Running ones.
C23_MutationNeverFailsEmit ==
    [][\A i \in Returning :
          Parked[i].stale
             => /\ emit_exc' = None
                /\ (Parked[i].next # None /\ Parked[i].next \in KeySet(_plugins))
                      => /\ emit_calls' = Continued(Parked[i]).calls
                         /\ emit_pc' = Continued(Parked[i]).pc]_vars

\* C24: a handler runs only on a plugin that has been bound to the bot: no
\* plugin whose handler is in progress has its bot still unset, whether it
\* was added before or after the manager's start() and whether the event is
\* emitted before or after start().
C24_HandlerOnlyOnBoundPlugin ==
    \A plugin \in BagToSet(in_progress) : set_bot_calls[plugin] > 0

\* the event names tried that are neither a branch of emit_events nor a
\* payload kind of the contract table
UnlistedKinds == OtherKinds \ PayloadKinds

\* C25: a call of emit_events with "logout" or a name outside the contract
\* table ends at once without an error, invokes no handler of any plugin and
\* leaves the registry and the statuses as they are; and no call of
\* emit_events ever invokes on_logout.
C25_UnlistedKindIsSilent ==
    /\ [][(EmitCalled /\ emit_event'.event_name \in UnlistedKinds)
             => /\ emit_pc' = "done"
                /\ emit_exc' = None
                /\ emit_calls' = <<>>
                /\ in_progress' = in_progress
                /\ UNCHANGED <<_plugins, _plugin_status>>]_vars
    /\ [](\A i \in 1..Len(emit_calls) : emit_calls[i].handler # "on_logout")

\* a logout event was emitted with a Running plugin registered: the call is
\* over, without an error and without an invocation
C25_Witness ==
    /\ emit_event # NoEvent
    /\ emit_event.event_name = "logout"
    /\ emit_pc = "done"
    /\ emit_exc = None
    /\ emit_calls = <<>>
    /\ \E i \in 1..Len(_plugins) : _plugin_status[_plugins[i].name] = Running

====
